---- MODULE Spec2Model ----
(***************************************************************************)
(* LoopBreaker Protocol (src/loopbreaker_protocol.py): a stateful engine   *)
(* that records metric snapshots, evaluates six pattern detectors, selects *)
(* one intervention subject to cooldown and priority, invokes it and       *)
(* summarises the session.                                                 *)
(*                                                                         *)
(* Units.  Real-valued metrics are held in hundredths (0.95 is 95), so the *)
(* comparisons of the source against its decimal literals are exact.       *)
(* Instants and durations are held in whole minutes (1800 s is 30).        *)
(* datetime.now() is a clock that never runs backwards; every read may     *)
(* find it advanced by one of the steps of the session, up to MaxTime.     *)
(***************************************************************************)
EXTENDS Integers, Sequences, FiniteSets, TLC

VARIABLES
    state_history,      \* self.state_history: the list of CognitiveState
    last_executed,      \* Intervention.last_executed, per catalog intervention
    active_containment, \* self.active_containment
    now,                \* the last value datetime.now() returned
    reads,              \* the clock readings taken by the last call, in order
    result,             \* what the last call returned (or that it raised)
    parked,             \* a second LoopBreaker, the one the caller is not calling
    focus               \* which of the two instances the caller is calling

vars == <<state_history, last_executed, active_containment, now, reads, result,
          parked, focus>>

----------------------------------------------------------------------------
(* Bounds of the model *)

\* calls that append a snapshot, per session (Spec)
MaxHist == 3
\* cycles of a session in the coherence-trend specification (SpecB)
MaxHistB == 4
\* the clock stops advancing here (minutes)
MaxTime == 240

\* what the clock may have advanced by between two reads (minutes)
ClockSteps == {0, 240}

----------------------------------------------------------------------------
(* Values *)

\* Optional[datetime] = None
NoneTime == -1

\* a field value of a type that supports no ordering or arithmetic (the
\* dataclass does not validate its fields); None is one such value
NonNumeric == -1

IsNumber(v) == v # NonNumeric

FieldNames ==
    {"recursion_depth", "symbolic_density", "coherence_score",
     "temporal_anchor", "emotional_intensity", "meaning_saturation"}

\* class CollapsePattern, in the order the detectors are registered
Patterns ==
    <<"symbolic_flooding", "identity_fragmentation", "recursive_spiral",
      "meaning_collapse", "temporal_disconnection", "containment_breach">>

\* PatternDetector.confidence_threshold (hundredths)
confidence_threshold(p) ==
    CASE p = "symbolic_flooding"      -> 80
      [] p = "identity_fragmentation" -> 70
      [] p = "recursive_spiral"       -> 90
      [] p = "meaning_collapse"       -> 80
      [] p = "temporal_disconnection" -> 60
      [] p = "containment_breach"     -> 100

\* self.interventions: category -> interventions in registration order
interventions ==
    [grounding       |-> <<"loop_breath", "physical_anchor">>,
     identity_anchor |-> <<"core_recall", "values_compass">>,
     containment     |-> <<"symbolic_quarantine", "emergency_containment">>,
     redirect        |-> <<"creative_outlet">>]

InterventionIds ==
    {"loop_breath", "physical_anchor", "core_recall", "values_compass",
     "symbolic_quarantine", "emergency_containment", "creative_outlet"}

intervention_type(i) ==
    CASE i \in {"loop_breath", "physical_anchor"}               -> "grounding"
      [] i \in {"core_recall", "values_compass"}                -> "identity_anchor"
      [] i \in {"symbolic_quarantine", "emergency_containment"} -> "containment"
      [] i = "creative_outlet"                                  -> "redirect"

priority(i) ==
    CASE i = "loop_breath"           -> 7
      [] i = "physical_anchor"       -> 6
      [] i = "core_recall"           -> 8
      [] i = "values_compass"        -> 7
      [] i = "symbolic_quarantine"   -> 9
      [] i = "emergency_containment" -> 10
      [] i = "creative_outlet"       -> 5

cooldown_minutes(i) ==
    CASE i = "loop_breath"           -> 10
      [] i = "physical_anchor"       -> 15
      [] i = "core_recall"           -> 20
      [] i = "values_compass"        -> 30
      [] i = "symbolic_quarantine"   -> 60
      [] i = "emergency_containment" -> 240
      [] i = "creative_outlet"       -> 30

----------------------------------------------------------------------------
(* CognitiveState *)

Field(kwargs, name, default) ==
    IF name \in DOMAIN kwargs THEN kwargs[name] ELSE default

\* CognitiveState(timestamp=..., session_duration=..., **kwargs): the fields
\* the caller leaves out take the dataclass defaults
CognitiveState(timestamp, session_duration, kwargs) ==
    [timestamp           |-> timestamp,
     recursion_depth     |-> Field(kwargs, "recursion_depth", 0),
     symbolic_density    |-> Field(kwargs, "symbolic_density", 0),
     coherence_score     |-> Field(kwargs, "coherence_score", 100),
     temporal_anchor     |-> Field(kwargs, "temporal_anchor", 100),
     emotional_intensity |-> Field(kwargs, "emotional_intensity", 0),
     meaning_saturation  |-> Field(kwargs, "meaning_saturation", 0),
     session_duration    |-> session_duration]

\* the dataclass constructor raises TypeError on a keyword it does not know
UnknownField(kwargs) == ~(DOMAIN kwargs \subseteq FieldNames)

----------------------------------------------------------------------------
(* Detectors.  A predicate yields "T", "F", or "E" when it raises.         *)

\* a > b, a < b in Python: TypeError when a is not a number
Gt(a, b) == IF ~IsNumber(a) THEN "E" ELSE IF a > b THEN "T" ELSE "F"
Lt(a, b) == IF ~IsNumber(a) THEN "E" ELSE IF a < b THEN "T" ELSE "F"
\* c1 >= c2: a decrease that need not be strict
Ge2(a, b) ==
    IF ~IsNumber(a) \/ ~IsNumber(b) THEN "E" ELSE IF a >= b THEN "T" ELSE "F"

\* c1 > c2 between two field values
Gt2(a, b) ==
    IF ~IsNumber(a) \/ ~IsNumber(b) THEN "E" ELSE IF a > b THEN "T" ELSE "F"

\* x and y, x or y: y is evaluated only when x does not decide
AndThen(x, y) == IF x = "T" THEN y ELSE x
OrElse(x, y) == IF x = "F" THEN y ELSE x

detect_symbolic_flooding(state) ==
    AndThen(Gt(state.symbolic_density, 80),
    AndThen(Gt(state.recursion_depth, 5),
            Gt(state.meaning_saturation, 70)))

\* the last three coherence values of the history
recent_coherence(history) ==
    [k \in 1..3 |-> history[Len(history) - 3 + k].coherence_score]

\* the detector without its length guard: history[-3:] is then the whole of a
\* shorter history, and all() of no pairs is True
detect_identity_fragmentation_unguarded(state, history) ==
    LET n == Len(history)
        w == IF n < 3 THEN n ELSE 3
        decreasing ==
            \A k \in 1..(w - 1) :
                history[n - w + k].coherence_score > history[n - w + k + 1].coherence_score
    IN  AndThen(Lt(state.coherence_score, 40), IF decreasing THEN "T" ELSE "F")

detect_identity_fragmentation(state, history) ==
    IF Len(history) < 3 THEN "F"
    ELSE LET rc == recent_coherence(history)
         IN  AndThen(Lt(state.coherence_score, 40),
             AndThen(Gt2(rc[1], rc[2]), Gt2(rc[2], rc[3])))

detect_recursive_spiral(state) ==
    AndThen(Gt(state.recursion_depth, 10),
    AndThen(Gt(state.emotional_intensity, 80),
            Gt(state.session_duration, 30)))

detect_meaning_collapse(state) ==
    AndThen(Gt(state.meaning_saturation, 90),
    AndThen(Lt(state.coherence_score, 30),
            Gt(state.symbolic_density, 90)))

detect_temporal_disconnection(state) ==
    AndThen(Lt(state.temporal_anchor, 20),
            Gt(state.session_duration, 60))

\* the breach test with the depth limit of detect_recursive_spiral
detect_containment_breach_depth10(state) ==
    OrElse(Gt(state.recursion_depth, 10),
    OrElse(Gt(state.meaning_saturation, 95),
           Lt(state.coherence_score, 10)))

\* the breach with coherence_score <= 0.1 in place of < 0.1
detect_containment_breach_inclusive(state) ==
    OrElse(Gt(state.recursion_depth, 15),
    OrElse(Gt(state.meaning_saturation, 95),
           Lt(state.coherence_score, 11)))

detect_containment_breach(state) ==
    OrElse(Gt(state.recursion_depth, 15),
    OrElse(Gt(state.meaning_saturation, 95),
           Lt(state.coherence_score, 10)))

threshold_function(p, state, history) ==
    CASE p = "symbolic_flooding"      -> detect_symbolic_flooding(state)
      [] p = "identity_fragmentation" -> detect_identity_fragmentation(state, history)
      [] p = "recursive_spiral"       -> detect_recursive_spiral(state)
      [] p = "meaning_collapse"       -> detect_meaning_collapse(state)
      [] p = "temporal_disconnection" -> detect_temporal_disconnection(state)
      [] p = "containment_breach"     -> detect_containment_breach(state)

\* detector.threshold_function(state) returned True, per registered detector
Fires(state, history) ==
    [k \in 1..Len(Patterns) |-> threshold_function(Patterns[k], state, history) = "T"]

\* the loop with the try around the whole of it: the first detector that
\* raises ends the detection
detect_patterns_aborting(state, history) ==
    LET r == [k \in 1..Len(Patterns) |-> threshold_function(Patterns[k], state, history)]
        F[k \in 0..Len(Patterns)] ==
            IF k = 0 THEN <<>>
            ELSE IF \E j \in 1..k : r[j] = "E" THEN F[k-1]
            ELSE IF r[k] = "T" THEN Append(F[k-1], Patterns[k]) ELSE F[k-1]
    IN  F[Len(Patterns)]

\* detect_patterns: the detectors that returned True, in registration order;
\* one that raises is reported and skipped
detect_patterns(state, history) ==
    LET f == Fires(state, history)
        F[k \in 0..Len(Patterns)] ==
            IF k = 0 THEN <<>>
            ELSE IF f[k] THEN Append(F[k-1], Patterns[k]) ELSE F[k-1]
    IN  F[Len(Patterns)]

----------------------------------------------------------------------------
(* Selection *)

\* patterns.sort(key=lambda x: x[1], reverse=True): a stable sort, so patterns
\* of equal confidence keep the order they were given in
\* the sort without reverse=True: ascending confidence
InsertAscending(sorted, p) ==
    LET before == SelectSeq(sorted, LAMBDA q: confidence_threshold(q) <= confidence_threshold(p))
        after  == SelectSeq(sorted, LAMBDA q: confidence_threshold(q) > confidence_threshold(p))
    IN  before \o <<p>> \o after

Insert(sorted, p) ==
    LET before == SelectSeq(sorted, LAMBDA q: confidence_threshold(q) >= confidence_threshold(p))
        after  == SelectSeq(sorted, LAMBDA q: confidence_threshold(q) < confidence_threshold(p))
    IN  before \o <<p>> \o after

SortByConfidence(patterns) ==
    LET S[k \in 0..Len(patterns)] ==
            IF k = 0 THEN <<>> ELSE Insert(S[k-1], patterns[k])
    IN  S[Len(patterns)]

\* the table with temporal_disconnection sent to InterventionType.REDIRECT
pattern_to_intervention_redirect(p) ==
    CASE p = "symbolic_flooding"      -> "containment"
      [] p = "identity_fragmentation" -> "identity_anchor"
      [] p = "recursive_spiral"       -> "grounding"
      [] p = "meaning_collapse"       -> "containment"
      [] p = "temporal_disconnection" -> "redirect"
      [] p = "containment_breach"     -> "containment"

pattern_to_intervention(p) ==
    CASE p = "symbolic_flooding"      -> "containment"
      [] p = "identity_fragmentation" -> "identity_anchor"
      [] p = "recursive_spiral"       -> "grounding"
      [] p = "meaning_collapse"       -> "containment"
      [] p = "temporal_disconnection" -> "grounding"
      [] p = "containment_breach"     -> "containment"

\* no cooldown test: every intervention of the category is a candidate
Available_regardless(i, current_time, last) == TRUE

\* the cooldown test with the boundary let through
AvailableAtBoundary(i, current_time, last) ==
    \/ last[i] = NoneTime
    \/ current_time - last[i] >= cooldown_minutes(i)

\* the cooldown test of select_intervention
Available(i, current_time, last) ==
    \/ last[i] = NoneTime
    \/ current_time - last[i] > cooldown_minutes(i)

available_interventions(category, current_time, last) ==
    SelectSeq(interventions[category],
              LAMBDA i: Available(i, current_time, last))

\* max(available, key=lambda x: x.priority): the first of the maximal ones
\* the first eligible intervention, whatever its priority
MaxByPriority_first(avail) == avail[1]

MaxByPriority(avail) ==
    LET M[k \in 1..Len(avail)] ==
            IF k = 1 THEN avail[1]
            ELSE IF priority(avail[k]) > priority(M[k-1]) THEN avail[k] ELSE M[k-1]
    IN  M[Len(avail)]

primary_pattern(patterns) == Head(SortByConfidence(patterns))

\* select_intervention past its first early return: "None" or an intervention
select_intervention(patterns, current_time, last) ==
    LET avail == available_interventions(
                    pattern_to_intervention(primary_pattern(patterns)),
                    current_time, last)
    IN  IF avail = <<>> THEN "None" ELSE MaxByPriority(avail)

----------------------------------------------------------------------------
(* Session summary *)

RECURSIVE SumCoherence(_)
SumCoherence(history) ==
    IF history = <<>> THEN 0
    ELSE history[Len(history)].coherence_score
         + SumCoherence(SubSeq(history, 1, Len(history) - 1))

RECURSIVE MaxRecursion(_)
MaxRecursion(history) ==
    IF Len(history) = 1 THEN history[1].recursion_depth
    ELSE LET m == MaxRecursion(SubSeq(history, 1, Len(history) - 1))
             d == history[Len(history)].recursion_depth
         IN  IF d > m THEN d ELSE m

\* round(sum / n, 2) on hundredths: the nearest integer, a tie to the even one
\* (a float tie falls as the binary value of the quotient lies)
Round2(sum, n) ==
    LET q == sum \div n
        r == sum % n
    IN  IF 2 * r < n THEN q
        ELSE IF 2 * r > n THEN q + 1
        ELSE IF q % 2 = 0 THEN q ELSE q + 1

\* sum() and max() over the history, and max_recursion > 8, raise TypeError on
\* a value that is not a number (max() of one element compares nothing, but
\* _generate_recommendations then compares it with 8)
SummaryRaises(history) ==
    \E k \in 1..Len(history) :
        \/ ~IsNumber(history[k].coherence_score)
        \/ ~IsNumber(history[k].recursion_depth)

\* a count of the categories in which an intervention was invoked
total_interventions_by_category(last) ==
    Cardinality({intervention_type(i) : i \in {j \in InterventionIds : last[j] # NoneTime}})

total_interventions(last) ==
    Cardinality({i \in InterventionIds : last[i] # NoneTime})

\* _generate_recommendations: the rules that apply, in the order they are tested
generate_recommendations(history, containment) ==
    LET n == Len(history)
        r1 == IF SumCoherence(history) < 60 * n
              THEN <<"identity_anchoring">> ELSE <<>>
        r2 == IF MaxRecursion(history) > 8
              THEN <<"recursion_limits">> ELSE <<>>
        r3 == IF containment THEN <<"extended_integration">> ELSE <<>>
        r4 == IF history[n].session_duration > 90
              THEN <<"shorter_sessions">> ELSE <<>>
    IN  r1 \o r2 \o r3 \o r4

\* the dictionary get_session_summary returns for a history of numbers
session_summary(history, last, containment) ==
    [duration_minutes        |-> history[Len(history)].session_duration,
     total_states_recorded   |-> Len(history),
     interventions_executed  |-> total_interventions(last),
     average_coherence       |-> Round2(SumCoherence(history), Len(history)),
     maximum_recursion_depth |-> MaxRecursion(history),
     containment_activated   |-> containment,
     recommendations         |-> generate_recommendations(history, containment)]

----------------------------------------------------------------------------
(* What a call hands back to its caller *)

Returned(op, value) == [op |-> op, outcome |-> "returned", value |-> value]
Raised(op, error) == [op |-> op, outcome |-> "raised", value |-> [error |-> error]]

\* result["intervention"] = None
NoIntervention == [kind |-> "None"]

\* the dictionary of the action function, with the three keys
\* execute_intervention adds (id(intervention) is the intervention's identity)
intervention_result(i, executed_at) ==
    [kind            |-> "executed",
     type            |-> intervention_type(i),
     protocol        |-> i,
     intervention_id |-> i,
     executed_at     |-> executed_at]

\* the dictionary execute_intervention returns when the action function raises
degraded_result(i) ==
    [kind              |-> "error",
     error             |-> "Intervention execution failed",
     intervention_type |-> intervention_type(i),
     fallback          |-> "Initiate manual grounding protocol"]

\* execute_intervention's return value; `raising` holds the interventions whose
\* action function (Intervention.execute, a callable of the catalog) raises
execute_result(i, executed_at, raising) ==
    IF i \in raising THEN degraded_result(i)
    ELSE intervention_result(i, executed_at)

\* the timestamp written only once the action function has returned
last_executed_on_success(last, i, t, raising) ==
    IF i \in raising THEN last ELSE [last EXCEPT ![i] = t]

\* the timestamp written on every intervention of the invoked one's category
last_executed_whole_category(last, i, t, raising) ==
    [j \in DOMAIN last |->
        IF intervention_type(j) = intervention_type(i) THEN t ELSE last[j]]

\* execute_intervention: intervention.last_executed = datetime.now(), before
\* the action function is tried
last_executed_after(last, i, t, raising) == [last EXCEPT ![i] = t]

\* datetime.now(), read when the last reading was `from`
Ticks(from, steps) == {t \in {from + d : d \in steps} : t <= MaxTime}

----------------------------------------------------------------------------
(* Operations *)

\* the snapshot with its duration measured from the latest entry
new_state_since_latest(history, current_time, kwargs) ==
    CognitiveState(current_time,
                   IF history # <<>>
                   THEN current_time - history[Len(history)].timestamp
                   ELSE 0,
                   kwargs)

\* update_state: the snapshot it builds from the clock reading and the kwargs
new_state(history, current_time, kwargs) ==
    CognitiveState(current_time,
                   IF history # <<>> THEN current_time - history[1].timestamp
                   ELSE 0,
                   kwargs)

\* the flag assigned from the category of the intervention just executed
containment_flag_assigned(intervention, flag) ==
    intervention_type(intervention) = "containment"

\* the flag set after any executed intervention, whatever its category
containment_flag_any_intervention(intervention, flag) == TRUE

\* process_cycle: the containment flag after an intervention was executed
containment_flag(intervention, flag) ==
    IF intervention_type(intervention) = "containment" THEN TRUE ELSE flag

\* get_session_summary as a function of the engine's state
SummaryOf(history, last, containment) ==
    IF history = <<>>
    THEN Returned("get_session_summary", [error |-> "No session data available"])
    ELSE IF SummaryRaises(history)
    THEN Raised("get_session_summary", "TypeError")
    ELSE Returned("get_session_summary", session_summary(history, last, containment))

\* lb.update_state(**kwargs)
UpdateState(kwargs, steps) ==
    \E t0 \in Ticks(now, steps) :
        /\ now' = t0
        /\ reads' = <<t0>>
        /\ IF UnknownField(kwargs)
           THEN /\ state_history' = state_history
                /\ result' = Raised("update_state", "TypeError")
           ELSE LET s == new_state(state_history, t0, kwargs)
                IN  /\ state_history' = Append(state_history, s)
                    /\ result' = Returned("update_state", s)
        /\ UNCHANGED <<last_executed, active_containment>>

\* lb.select_intervention(patterns)
SelectIntervention(patterns, steps) ==
    IF patterns = <<>>
    THEN /\ result' = Returned("select_intervention",
                               [patterns |-> patterns, intervention |-> "None"])
         /\ reads' = <<>>
         /\ UNCHANGED <<state_history, last_executed, active_containment, now>>
    ELSE \E t1 \in Ticks(now, steps) :
            /\ now' = t1
            /\ reads' = <<t1>>
            /\ result' = Returned("select_intervention",
                                  [patterns     |-> patterns,
                                   intervention |->
                                       select_intervention(patterns, t1, last_executed)])
            /\ UNCHANGED <<state_history, last_executed, active_containment>>

\* lb.execute_intervention(intervention, state) on an intervention of the catalog
ExecuteInterventionWith(i, steps, raising) ==
    \E t2 \in Ticks(now, steps) :
        /\ now' = t2
        /\ reads' = <<t2>>
        /\ last_executed' = last_executed_after(last_executed, i, t2, raising)
        /\ result' = Returned("execute_intervention", execute_result(i, t2, raising))
        /\ UNCHANGED <<state_history, active_containment>>

\* the same with the action functions of the source, which do not raise
ExecuteIntervention(i, steps) == ExecuteInterventionWith(i, steps, {})

\* lb.process_cycle(**state_updates)
ProcessCycleWith(kwargs, steps, raising) ==
    \E t0 \in Ticks(now, steps) :
        IF UnknownField(kwargs)
        THEN /\ now' = t0
             /\ reads' = <<t0>>
             /\ result' = Raised("process_cycle", "TypeError")
             /\ UNCHANGED <<state_history, last_executed, active_containment>>
        ELSE LET current_state == new_state(state_history, t0, kwargs)
                 history == Append(state_history, current_state)
                 detected_patterns == detect_patterns(current_state, history)
                 record(outcome) ==
                     Returned("process_cycle",
                              [timestamp         |-> t0,
                               state             |-> current_state,
                               patterns_detected |-> detected_patterns,
                               intervention      |-> outcome])
             IN  /\ state_history' = history
                 /\ IF detected_patterns = <<>>
                    THEN /\ now' = t0
                         /\ reads' = <<t0>>
                         /\ result' = record(NoIntervention)
                         /\ UNCHANGED <<last_executed, active_containment>>
                    ELSE \E t1 \in Ticks(t0, steps) :
                         LET intervention ==
                                 select_intervention(detected_patterns, t1, last_executed)
                         IN  IF intervention = "None"
                             THEN /\ now' = t1
                                  /\ reads' = <<t0, t1>>
                                  /\ result' = record(NoIntervention)
                                  /\ UNCHANGED <<last_executed, active_containment>>
                             ELSE \E t2 \in Ticks(t1, steps) :
                                  /\ now' = t2
                                  /\ reads' = <<t0, t1, t2>>
                                  /\ last_executed' =
                                         last_executed_after(last_executed, intervention,
                                                             t2, raising)
                                  /\ result' = record(execute_result(intervention, t2,
                                                                     raising))
                                  /\ active_containment' =
                                         containment_flag(intervention, active_containment)

\* the same with the action functions of the source, which do not raise
ProcessCycle(kwargs, steps) == ProcessCycleWith(kwargs, steps, {})

\* a summary that closes the session: it reports, then empties the log
GetSessionSummaryClosing ==
    /\ result' = SummaryOf(state_history, last_executed, active_containment)
    /\ reads' = <<>>
    /\ state_history' = <<>>
    /\ UNCHANGED <<last_executed, active_containment, now>>

\* lb.get_session_summary()
GetSessionSummary ==
    /\ result' = SummaryOf(state_history, last_executed, active_containment)
    /\ reads' = <<>>
    /\ UNCHANGED <<state_history, last_executed, active_containment, now>>

----------------------------------------------------------------------------
(* Sessions *)

\* LoopBreaker(): empty history, nothing invoked, flag down
\* LoopBreaker(): an empty history, a catalog of its own in which nothing was
\* invoked, the flag False
new_instance ==
    [state_history      |-> <<>>,
     last_executed      |-> [i \in InterventionIds |-> NoneTime],
     active_containment |-> FALSE]

Init ==
    /\ state_history = <<>>
    /\ last_executed = [i \in InterventionIds |-> NoneTime]
    /\ active_containment = FALSE
    /\ now = 0
    /\ reads = <<>>
    /\ result = Returned("init", [session |-> "new"])
    /\ parked = new_instance
    /\ focus = 1

\* a call on an instance is a call on that instance only
SameInstance == UNCHANGED <<parked, focus>>

\* the two instances with one catalog between them: the caller turns to the
\* other history and flag, the interventions stay
SwitchInstance_shared_catalog ==
    /\ parked' = [state_history      |-> state_history,
                  last_executed      |-> parked.last_executed,
                  active_containment |-> active_containment]
    /\ state_history' = parked.state_history
    /\ active_containment' = parked.active_containment
    /\ focus' = 3 - focus
    /\ UNCHANGED <<last_executed, now, reads, result>>

\* the caller turns to its other instance: self.state_history,
\* self.interventions and self.active_containment are that instance's own
SwitchInstance ==
    /\ parked' = [state_history      |-> state_history,
                  last_executed      |-> last_executed,
                  active_containment |-> active_containment]
    /\ state_history' = parked.state_history
    /\ last_executed' = parked.last_executed
    /\ active_containment' = parked.active_containment
    /\ focus' = 3 - focus
    /\ UNCHANGED <<now, reads, result>>

\* the keyword arguments a caller passes
Calm == [coherence_score |-> 90]
Breach == [coherence_score |-> 5]
Spiral == [recursion_depth |-> 12, emotional_intensity |-> 90]
Drift == [temporal_anchor |-> 10, coherence_score |-> 30]

Inputs == {Calm, Breach, Spiral, Drift}

\* the pattern lists handed to select_intervention directly
PatternLists ==
    {<<>>, <<"identity_fragmentation", "containment_breach">>,
     <<"temporal_disconnection", "identity_fragmentation">>}

\* the catalog interventions a caller invokes directly
DirectInvocations == {"symbolic_quarantine"}

\* Any sequence of calls of the five operations on one engine.
Next ==
    \/ \E kwargs \in Inputs :
          Len(state_history) < MaxHist /\ UpdateState(kwargs, ClockSteps)
                                       /\ SameInstance
    \/ \E kwargs \in Inputs :
          Len(state_history) < MaxHist /\ ProcessCycle(kwargs, ClockSteps)
                                       /\ SameInstance
    \/ \E patterns \in PatternLists :
          SelectIntervention(patterns, ClockSteps) /\ SameInstance
    \/ \E i \in DirectInvocations :
          ExecuteIntervention(i, ClockSteps) /\ SameInstance
    \/ GetSessionSummary /\ SameInstance

Spec == Init /\ [][Next]_vars

\* The example session of the source: three cycles of rising intensity, then
\* the summary.  The clock steps straddle the 1800 s of detect_recursive_spiral.
ScenarioA ==
    <<[recursion_depth |-> 2, symbolic_density |-> 30, coherence_score |-> 90,
       temporal_anchor |-> 80, emotional_intensity |-> 20, meaning_saturation |-> 20],
      [recursion_depth |-> 6, symbolic_density |-> 70, coherence_score |-> 60,
       temporal_anchor |-> 50, emotional_intensity |-> 60, meaning_saturation |-> 60],
      [recursion_depth |-> 12, symbolic_density |-> 90, coherence_score |-> 30,
       temporal_anchor |-> 20, emotional_intensity |-> 90, meaning_saturation |-> 80]>>

ClockStepsA == {0, 30, 31}

NextA ==
    \/ /\ Len(state_history) < Len(ScenarioA)
       /\ ProcessCycle(ScenarioA[Len(state_history) + 1], ClockStepsA)
       /\ SameInstance
    \/ /\ Len(state_history) = Len(ScenarioA)
       /\ GetSessionSummary
       /\ SameInstance

SpecA == Init /\ [][NextA]_vars

\* Sessions of cycles in which only coherence_score is supplied.
CoherenceB == {90, 70, 50, 30}

NextB ==
    \E c \in CoherenceB :
        /\ Len(state_history) < MaxHistB
        /\ ProcessCycle([coherence_score |-> c], ClockSteps)
        /\ SameInstance

SpecB == Init /\ [][NextB]_vars

\* Sessions on a catalog in which the action functions of some interventions
\* raise (Intervention.execute is any callable the catalog holds).
RaisingSets == {{}, {"emergency_containment", "loop_breath"}}

NextF ==
    \/ \E kwargs \in Inputs, raising \in RaisingSets :
          /\ Len(state_history) < MaxHist
          /\ ProcessCycleWith(kwargs, ClockSteps, raising)
          /\ SameInstance
    \/ \E i \in DirectInvocations \cup {"emergency_containment"},
           raising \in RaisingSets :
          ExecuteInterventionWith(i, ClockSteps, raising) /\ SameInstance
    \/ GetSessionSummary /\ SameInstance

SpecF == Init /\ [][NextF]_vars

\* Sessions driven through process_cycle alone, with summaries between cycles.
NextCycles ==
    \/ \E kwargs \in Inputs :
          /\ Len(state_history) < MaxHist
          /\ ProcessCycle(kwargs, ClockSteps)
          /\ SameInstance
    \/ GetSessionSummary /\ SameInstance

SpecCycles == Init /\ [][NextCycles]_vars

\* Sessions of cycles whose snapshots make each of the six patterns fire.
Flood == [symbolic_density |-> 90, recursion_depth |-> 6, meaning_saturation |-> 80]
Collapse == [meaning_saturation |-> 95, coherence_score |-> 20, symbolic_density |-> 95]
Fading == [recursion_depth |-> 12, emotional_intensity |-> 90, coherence_score |-> 60]

InputsAll == Inputs \cup {Flood, Collapse, Fading}

NextAll ==
    \/ \E kwargs \in InputsAll :
          /\ Len(state_history) < MaxHist
          /\ ProcessCycle(kwargs, ClockSteps)
          /\ SameInstance
    \/ GetSessionSummary /\ SameInstance

SpecAll == Init /\ [][NextAll]_vars

\* Two instances in one program, called in any interleaving of whole calls.
\* MaxHistTwo bounds the cycles of the two instances together.
MaxHistTwo == 3

InputsTwo == {Calm, Breach}

NextTwo ==
    \/ \E kwargs \in InputsTwo :
          /\ Len(state_history) + Len(parked.state_history) < MaxHistTwo
          /\ ProcessCycle(kwargs, ClockSteps)
          /\ SameInstance
    \/ GetSessionSummary /\ SameInstance
    \/ SwitchInstance

SpecTwo == Init /\ [][NextTwo]_vars

\* Cycles on snapshots at and just past each threshold of containment_breach.
MaxHistBreach == 2

InputsBreach ==
    {[recursion_depth |-> d, meaning_saturation |-> m, coherence_score |-> c] :
        d \in {15, 16}, m \in {95, 96}, c \in {10, 9}}

NextBreach ==
    \E kwargs \in InputsBreach :
        /\ Len(state_history) < MaxHistBreach
        /\ ProcessCycle(kwargs, ClockSteps)
        /\ SameInstance

SpecBreach == Init /\ [][NextBreach]_vars

\* Sessions whose callers also pass values that are not numbers, and a
\* keyword that is no field of CognitiveState.
BadCoherence == [coherence_score |-> NonNumeric]
BadDepth == [recursion_depth |-> NonNumeric, coherence_score |-> 30]
BadName == [coherence_score |-> 90, mood |-> 50]
\* flooding and breach by depth, with a coherence that cannot be compared
BadMixed == [coherence_score |-> NonNumeric, recursion_depth |-> 16,
             symbolic_density |-> 90, meaning_saturation |-> 80]

InputsM == {Calm, BadCoherence, BadDepth, BadName, BadMixed}

NextM ==
    \/ \E kwargs \in InputsM :
          Len(state_history) < MaxHist /\ UpdateState(kwargs, ClockSteps)
                                       /\ SameInstance
    \/ \E kwargs \in InputsM :
          Len(state_history) < MaxHist /\ ProcessCycle(kwargs, ClockSteps)
                                       /\ SameInstance
    \/ GetSessionSummary /\ SameInstance

SpecM == Init /\ [][NextM]_vars

----------------------------------------------------------------------------
(* Reading a call's outcome *)

IsCycle(r) == r.op = "process_cycle" /\ r.outcome = "returned"

\* the call ran select_intervention past its first early return
MadeSelection(r) ==
    /\ r.outcome = "returned"
    /\ \/ r.op = "process_cycle" /\ r.value.patterns_detected # <<>>
       \/ r.op = "select_intervention" /\ r.value.patterns # <<>>

SelPatterns(r) ==
    IF r.op = "process_cycle" THEN r.value.patterns_detected ELSE r.value.patterns

\* the intervention the call's selection returned, or "None"
SelChosen(r) ==
    IF r.op = "select_intervention" THEN r.value.intervention
    ELSE IF r.value.intervention.kind = "None" THEN "None"
    ELSE r.value.intervention.protocol

\* the clock reading the selection tested the cooldowns against
SelTime(r, rd) == IF r.op = "process_cycle" THEN rd[2] ELSE rd[1]

SelCategory(r) == pattern_to_intervention(primary_pattern(SelPatterns(r)))

\* invoked, and no more than its cooldown ago
Cooling(i, t, last) ==
    last[i] # NoneTime /\ t - last[i] <= cooldown_minutes(i)

AllCooling(category, t, last) ==
    \A k \in 1..Len(interventions[category]) :
        Cooling(interventions[category][k], t, last)

----------------------------------------------------------------------------
(* C1: a selection returns an intervention only if it was never invoked or
   strictly more than its cooldown has passed since its last invocation
   (elapsed = cooldown is still cooling); what it returns belongs to the
   category of the primary pattern; and it returns none exactly when every
   intervention of that category is cooling. *)
C1_CooldownEnforced ==
    [][MadeSelection(result') =>
        LET t == SelTime(result', reads')
            chosen == SelChosen(result')
            category == SelCategory(result')
        IN  /\ chosen # "None" =>
                   /\ ~Cooling(chosen, t, last_executed)
                   /\ intervention_type(chosen) = category
            /\ chosen = "None" <=> AllCooling(category, t, last_executed)
      ]_vars

\* containment: emergency_containment was invoked, then symbolic_quarantine,
\* and the next selection for a containment pattern returned none
C1_Witness ==
    /\ IsCycle(result)
    /\ MadeSelection(result)
    /\ SelCategory(result) = "containment"
    /\ SelChosen(result) = "None"
    /\ last_executed["emergency_containment"] # NoneTime
    /\ last_executed["symbolic_quarantine"] >= last_executed["emergency_containment"]
    /\ active_containment

----------------------------------------------------------------------------
(* Scenario A (SpecA) *)

Range(seq) == {seq[k] : k \in 1..Len(seq)}

\* the cycle that has just returned, counted from the start of the session
CycleNo == Len(state_history)

Detected == Range(result.value.patterns_detected)

(* C2, as the source decides it: in scenario A the first cycle and the second
   cycle detect no pattern; the third detects symbolic_flooding and
   identity_fragmentation, recursive_spiral too exactly when its snapshot lies
   more than 30 minutes after the first, and never containment_breach. *)
C2_ScenarioA_Detection ==
    IsCycle(result) =>
        /\ CycleNo = 1 => Detected = {}
        /\ CycleNo = 2 => Detected = {}
        /\ CycleNo = 3 =>
              /\ Detected \ {"recursive_spiral"} =
                     {"symbolic_flooding", "identity_fragmentation"}
              /\ "recursive_spiral" \in Detected
                     <=> state_history[3].session_duration > 30

C2_Witness ==
    /\ IsCycle(result)
    /\ CycleNo = 3
    /\ result.value.patterns_detected =
           <<"symbolic_flooding", "identity_fragmentation">>

(* C2 as claimed: no pattern on cycle 1, a non-empty set without
   containment_breach on cycle 2, containment_breach on cycle 3. *)
C2_AsClaimed ==
    IsCycle(result) =>
        /\ CycleNo = 1 => Detected = {}
        /\ CycleNo = 2 => Detected # {} /\ "containment_breach" \notin Detected
        /\ CycleNo = 3 => "containment_breach" \in Detected

(* C3, as the source decides it: in scenario A cycles 1 and 2 carry no
   intervention and leave the flag false; the third record carries a
   containment intervention and the flag is true when the third snapshot lies
   at most 30 minutes after the first; when it lies later, recursive_spiral is
   primary, the intervention is a grounding one and the flag stays false. *)
C3_ScenarioA_Intervention ==
    IsCycle(result) =>
        /\ CycleNo \in {1, 2} =>
              /\ result.value.intervention = NoIntervention
              /\ ~active_containment
        /\ CycleNo = 3 =>
              /\ result.value.intervention.kind = "executed"
              /\ IF state_history[3].session_duration <= 30
                 THEN /\ result.value.intervention.type = "containment"
                      /\ active_containment
                 ELSE /\ result.value.intervention.type = "grounding"
                      /\ ~active_containment

C3_Witness ==
    /\ IsCycle(result)
    /\ CycleNo = 3
    /\ state_history[3].session_duration = 30
    /\ result.value.intervention.protocol = "emergency_containment"
    /\ active_containment

(* C3 as claimed: after the three cycles the third record carries a
   containment intervention and the flag is true, whatever the clock did. *)
C3_AsClaimed ==
    IsCycle(result) =>
        /\ CycleNo \in {1, 2} =>
              /\ result.value.intervention = NoIntervention
              /\ ~active_containment
        /\ CycleNo = 3 =>
              /\ result.value.intervention.kind = "executed"
              /\ result.value.intervention.type = "containment"
              /\ active_containment

----------------------------------------------------------------------------
(* C4: the containment flag starts false and is one-way: no call of
   update_state, process_cycle, select_intervention, execute_intervention or
   get_session_summary takes it from true to false. *)
C4_FlagOneWay ==
    /\ ~active_containment
    /\ [][active_containment => active_containment']_vars

\* the flag was up and a later cycle executed an intervention of another
\* category
C4_Witness ==
    /\ active_containment
    /\ IsCycle(result)
    /\ result.value.intervention.kind = "executed"
    /\ result.value.intervention.type # "containment"

----------------------------------------------------------------------------
(* C5: no call of update_state, process_cycle or get_session_summary raises
   to its caller, malformed keyword arguments included. *)
C5_NoFatalErrors == result.outcome # "raised"

----------------------------------------------------------------------------
(* Coherence trend (SpecB) *)

Coherence(k) == state_history[k].coherence_score

FragmentationFired == "identity_fragmentation" \in Detected

C7_FragmentationRule ==
    IsCycle(result) /\ CycleNo >= 3 =>
        LET n == CycleNo
            coherences == [k \in 1..n |-> Coherence(k)]
        IN  /\ FragmentationFired <=>
                   /\ Coherence(n) < 40
                   /\ Coherence(n - 2) > Coherence(n - 1)
                   /\ Coherence(n - 1) > Coherence(n)
            /\ coherences = <<90, 70, 50, 30>> => FragmentationFired
            /\ coherences = <<90, 50, 70, 30>> => ~FragmentationFired
            /\ coherences = <<90, 50, 30, 30>> => ~FragmentationFired

C7_Witness ==
    /\ IsCycle(result)
    /\ CycleNo = 4
    /\ [k \in 1..4 |-> Coherence(k)] = <<90, 70, 50, 30>>
    /\ FragmentationFired
    /\ result.value.intervention.type = "identity_anchor"

----------------------------------------------------------------------------
(* C8: the first snapshot of a session has session_duration zero, every
   snapshot's session_duration is its timestamp minus the first snapshot's,
   and the durations do not decrease along the history. *)
C8_SessionDuration ==
    /\ state_history # <<>> => state_history[1].session_duration = 0
    /\ \A k \in 1..Len(state_history) :
           state_history[k].session_duration =
               state_history[k].timestamp - state_history[1].timestamp
    /\ \A k \in 1..(Len(state_history) - 1) :
           state_history[k].session_duration <= state_history[k + 1].session_duration

C8_Witness ==
    /\ Len(state_history) = 3
    /\ state_history[2].session_duration = 0
    /\ state_history[3].session_duration > 0

----------------------------------------------------------------------------
\* what get_session_summary would return now
SummaryNow == SummaryOf(state_history, last_executed, active_containment)

(* C9 as claimed: two summaries with no process_cycle between them are
   identical, that is, no call other than process_cycle changes what the
   summary returns. *)
C9_AsClaimed ==
    [][result'.op # "process_cycle" => SummaryNow' = SummaryNow]_vars

(* C9, as the source decides it: get_session_summary leaves the history, the
   last-invoked timestamps and the flag unchanged and returns a value that
   these three alone determine, so two summaries with no call of
   process_cycle, update_state or execute_intervention between them are
   identical. *)
C9_SummaryIdempotent ==
    [][/\ result'.op \in {"get_session_summary", "select_intervention"} =>
              UNCHANGED <<state_history, last_executed, active_containment>>
       /\ result'.op = "get_session_summary" =>
              /\ result' = SummaryNow'
              /\ result.op = "get_session_summary" => result' = result
      ]_vars

\* a summary of a session with snapshots, an invoked intervention and the flag
C9_Witness ==
    /\ result.op = "get_session_summary"
    /\ result.outcome = "returned"
    /\ Len(state_history) >= 2
    /\ result.value.interventions_executed >= 1
    /\ result.value.containment_activated

----------------------------------------------------------------------------
(* C10: every call of update_state and of process_cycle lengthens the history
   by exactly one entry, the new snapshot last and the earlier entries as they
   were, and no call removes an entry. *)
C10_AppendOnly ==
    [][/\ Len(state_history') >= Len(state_history)
       /\ SubSeq(state_history', 1, Len(state_history)) = state_history
       /\ result'.op \in {"update_state", "process_cycle"} =>
              /\ Len(state_history') = Len(state_history) + 1
              /\ state_history'[Len(state_history')] =
                     IF result'.op = "update_state" THEN result'.value
                     ELSE result'.value.state
      ]_vars

----------------------------------------------------------------------------
(* Failing action functions (SpecF) *)

\* the interventions whose last-invoked timestamp the step changed
Stamped == {i \in InterventionIds : last_executed'[i] # last_executed[i]}

(* C11: when the action function of the selected intervention raises,
   process_cycle still returns a decision record; its intervention outcome
   holds an error description, the intervention's category and a fallback
   instruction; and that intervention's last-invoked timestamp is set to the
   clock reading of the attempt, so that it is cooling from the attempt on. *)
C11_FailureAbsorbed ==
    [][result'.op = "process_cycle" =>
        /\ result'.outcome = "returned"
        /\ result'.value.intervention.kind = "error" =>
              /\ DOMAIN result'.value.intervention =
                     {"kind", "error", "intervention_type", "fallback"}
              /\ \E i \in InterventionIds :
                    /\ Stamped = {i}
                    /\ last_executed'[i] = reads'[3]
                    /\ intervention_type(i) = result'.value.intervention.intervention_type
                    /\ i = select_intervention(result'.value.patterns_detected,
                                               reads'[2], last_executed)
                    /\ Cooling(i, now', last_executed')
      ]_vars

\* a cycle selected emergency_containment, its action raised, and the
\* cooldown runs from the attempt
C11_Witness ==
    /\ IsCycle(result)
    /\ result.value.intervention.kind = "error"
    /\ result.value.intervention.intervention_type = "containment"
    /\ last_executed["emergency_containment"] = reads[3]
    /\ reads[3] > reads[1]

----------------------------------------------------------------------------
(* Failing detectors (SpecM) *)

\* what the detector registered k-th returned on the cycle's snapshot
Verdict(k) == threshold_function(Patterns[k], result.value.state, state_history)

(* C12: a detector whose predicate raises counts as not firing and the
   detectors after it are still evaluated: the detected list of a cycle holds
   exactly the patterns whose predicates returned true, once each and in
   registration order, and a cycle that detected a pattern went on to
   selection and returned its decision record. *)
C12_DetectorIsolation ==
    IsCycle(result) =>
        /\ \A k \in 1..Len(Patterns) :
              Patterns[k] \in Detected <=> Verdict(k) = "T"
        /\ \A a, b \in 1..Len(result.value.patterns_detected) :
              a < b => \E j, k \in 1..Len(Patterns) :
                          /\ j < k
                          /\ result.value.patterns_detected[a] = Patterns[j]
                          /\ result.value.patterns_detected[b] = Patterns[k]
        /\ Detected # {} => /\ Len(reads) >= 2
                            /\ result.value.intervention.kind \in {"None", "executed"}

\* a detector raised, one registered after it fired, and the cycle invoked an
\* intervention
C12_Witness ==
    /\ IsCycle(result)
    /\ \E j, k \in 1..Len(Patterns) :
          j < k /\ Verdict(j) = "E" /\ Verdict(k) = "T" /\ Patterns[k] \in Detected
    /\ result.value.intervention.kind = "executed"

----------------------------------------------------------------------------
(* The selection rule (Spec) *)

\* the patterns of the list no other pattern of the list exceeds in confidence
TopConfidence(patterns) ==
    {p \in Range(patterns) :
        \A q \in Range(patterns) : confidence_threshold(p) >= confidence_threshold(q)}

\* the interventions of category c that are not cooling at t
Eligible(c, t, last) ==
    {i \in InterventionIds : intervention_type(i) = c /\ ~Cooling(i, t, last)}

\* where the catalog registers i within its category
Registered(i) ==
    CHOOSE k \in 1..Len(interventions[intervention_type(i)]) :
        interventions[intervention_type(i)][k] = i

(* C13: for a non-empty list of detected patterns the selection takes the
   category the fixed table gives the highest-confidence pattern, and returns
   the eligible intervention of that category with the highest priority, the
   one registered first among equals; it returns none exactly when that
   category has no eligible intervention, whatever the categories of the
   other patterns hold.  For an empty list it returns none. *)
C13_SelectionRule ==
    [][(result'.outcome = "returned"
          /\ result'.op \in {"process_cycle", "select_intervention"}) =>
        LET patterns == SelPatterns(result')
            chosen == SelChosen(result')
            t == SelTime(result', reads')
        IN  IF patterns = <<>> THEN chosen = "None"
            ELSE \E p \in TopConfidence(patterns) :
                 LET eligible == Eligible(pattern_to_intervention(p), t, last_executed)
                 IN  /\ chosen = "None" <=> eligible = {}
                     /\ chosen # "None" =>
                           /\ chosen \in eligible
                           /\ \A j \in eligible :
                                 \/ priority(j) < priority(chosen)
                                 \/ /\ priority(j) = priority(chosen)
                                    /\ Registered(chosen) <= Registered(j)
      ]_vars

\* identity_fragmentation and containment_breach were handed in; every
\* containment intervention is cooling, both identity interventions are
\* eligible, and the selection returned none
C13_Witness ==
    /\ result.op = "select_intervention"
    /\ result.outcome = "returned"
    /\ result.value.patterns = <<"identity_fragmentation", "containment_breach">>
    /\ result.value.intervention = "None"
    /\ Eligible("containment", reads[1], last_executed) = {}
    /\ Eligible("identity_anchor", reads[1], last_executed) =
           Range(interventions["identity_anchor"])

----------------------------------------------------------------------------
(* The containment flag and invocations (Spec) *)

\* the containment interventions that were invoked at some time
InvokedContainment ==
    {i \in Range(interventions["containment"]) : last_executed[i] # NoneTime}

(* C14: once a containment intervention has been invoked, through
   process_cycle or through execute_intervention called directly,
   active_containment is true. *)
C14_InvocationSetsFlag ==
    InvokedContainment # {} => active_containment

----------------------------------------------------------------------------
(* Clock readings of one cycle (Spec) *)

(* C15: a cycle that invoked an intervention read the clock once: the
   timestamp of its snapshot, the instant its selection tested the cooldowns
   against and the last-invoked timestamp it stored are the same reading. *)
C15_OneClockReading ==
    (IsCycle(result) /\ result.value.intervention.kind = "executed") =>
        /\ reads[2] = result.value.timestamp
        /\ reads[3] = result.value.timestamp
        /\ result.value.intervention.executed_at = result.value.timestamp
        /\ last_executed[result.value.intervention.protocol] =
               state_history[Len(state_history)].timestamp

----------------------------------------------------------------------------
(* Two instances (SpecTwo) *)

\* the history, the last-invoked timestamps and the flag of instance k
Instance(k) ==
    IF focus = k
    THEN [state_history      |-> state_history,
          last_executed      |-> last_executed,
          active_containment |-> active_containment]
    ELSE parked

(* C16: a process_cycle or get_session_summary call on one instance leaves
   the history, the last-invoked timestamps and the flag of the other instance
   as they were, and the record a cycle returns is the one its own instance's
   history and last-invoked timestamps determine. *)
C16_NoSharedState ==
    [][/\ \A k \in {1, 2} :
             (k # focus \/ focus' # focus) => Instance(k)' = Instance(k)
       /\ (focus' = focus /\ IsCycle(result') /\ state_history' # state_history) =>
             LET own == Instance(focus)
                 detected == detect_patterns(result'.value.state,
                                             Append(own.state_history,
                                                    result'.value.state))
             IN  /\ result'.value.patterns_detected = detected
                 /\ detected # <<>> =>
                       SelChosen(result') =
                           select_intervention(detected, reads'[2], own.last_executed)
      ]_vars

\* instance 1 has invoked emergency_containment and instance 2, called after
\* it on the same input, was answered with emergency_containment too
C16_Witness ==
    /\ focus = 2
    /\ parked.last_executed["emergency_containment"] # NoneTime
    /\ parked.active_containment
    /\ IsCycle(result)
    /\ SelChosen(result) = "emergency_containment"
    /\ Len(state_history) = 1
    /\ last_executed["symbolic_quarantine"] = NoneTime

----------------------------------------------------------------------------
(* The thresholds of containment_breach (SpecBreach) *)

(* C17: a cycle detects containment_breach exactly when its snapshot has
   recursion_depth > 15, or meaning_saturation > 0.95, or coherence_score <
   0.1; one of the three alone is enough, and a snapshot with depth 15,
   saturation 0.95 and coherence 0.1 does not fire it. *)
C17_BreachThresholds ==
    IsCycle(result) =>
        LET s == result.value.state
        IN  /\ "containment_breach" \in Detected <=>
                  \/ s.recursion_depth > 15
                  \/ s.meaning_saturation > 95
                  \/ s.coherence_score < 10
            /\ (s.recursion_depth = 15 /\ s.meaning_saturation = 95
                  /\ s.coherence_score = 10) => "containment_breach" \notin Detected

\* a cycle on depth 15, saturation 0.95, coherence 0.1 that detected nothing,
\* after a cycle that detected the breach on coherence 0.09 alone
C17_Witness ==
    /\ IsCycle(result)
    /\ Len(state_history) = 2
    /\ state_history[1].recursion_depth = 15
    /\ state_history[1].meaning_saturation = 95
    /\ state_history[1].coherence_score = 9
    /\ last_executed["emergency_containment"] # NoneTime
    /\ result.value.state.recursion_depth = 15
    /\ result.value.state.meaning_saturation = 95
    /\ result.value.state.coherence_score = 10
    /\ Detected = {}

----------------------------------------------------------------------------
(* The count of interventions in the summary (SpecCycles) *)

\* interventions_executed of the summary a call would return now
InterventionsExecuted == SummaryNow.value.interventions_executed

(* C18: interventions_executed is the number of catalog interventions with a
   last-invoked timestamp, not the number of invocations: invoking again an
   intervention that was invoked before leaves it as it was, no step lowers
   it, and it is never more than the number of interventions in the
   catalog. *)
C18_DistinctInvoked ==
    [][state_history' # <<>> =>
        /\ InterventionsExecuted' =
               Cardinality({i \in InterventionIds : last_executed'[i] # NoneTime})
        /\ InterventionsExecuted' <= Cardinality(InterventionIds)
        /\ result'.op = "get_session_summary" =>
               result'.value.interventions_executed = InterventionsExecuted'
        /\ state_history # <<>> =>
               /\ InterventionsExecuted' >= InterventionsExecuted
               /\ (\E i \in Stamped : last_executed[i] # NoneTime) =>
                      InterventionsExecuted' = InterventionsExecuted
      ]_vars

\* three breach cycles invoked emergency_containment, symbolic_quarantine and,
\* past its cooldown, symbolic_quarantine again; the summary counts two
C18_Witness ==
    /\ result.op = "get_session_summary"
    /\ Len(state_history) = 3
    /\ \A k \in 1..3 : state_history[k].coherence_score = 5
    /\ state_history[2].timestamp = 0
    /\ last_executed["emergency_containment"] = 0
    /\ last_executed["symbolic_quarantine"] = 240
    /\ result.value.interventions_executed = 2

----------------------------------------------------------------------------
(* What changes the last-invoked timestamps (Spec) *)

(* C19: process_cycle changes the last-invoked timestamp of no intervention
   but the one whose outcome its record holds; when it detects no pattern, or
   its selection returns none, the record's intervention is none and the
   timestamps and the flag are as before; update_state, select_intervention
   and get_session_summary change no timestamp. *)
C19_OnlyInvocationStamps ==
    [][/\ result'.op \in {"update_state", "select_intervention",
                          "get_session_summary"} => Stamped = {}
       /\ result'.op = "process_cycle" =>
             IF result'.outcome = "raised"
             THEN Stamped = {} /\ active_containment' = active_containment
             ELSE /\ result'.value.patterns_detected = <<>> =>
                        result'.value.intervention.kind = "None"
                  /\ IF result'.value.intervention.kind = "None"
                     THEN Stamped = {} /\ active_containment' = active_containment
                     ELSE Stamped \subseteq {result'.value.intervention.protocol}
      ]_vars

\* a cycle invoked symbolic_quarantine and left the timestamp of
\* emergency_containment, invoked before it, as it was
C19_Witness ==
    /\ IsCycle(result)
    /\ result.value.intervention.kind = "executed"
    /\ result.value.intervention.protocol = "symbolic_quarantine"
    /\ last_executed["symbolic_quarantine"] = 240
    /\ last_executed["emergency_containment"] = 0
    /\ \A i \in InterventionIds \ {"symbolic_quarantine", "emergency_containment"} :
          last_executed[i] = NoneTime

----------------------------------------------------------------------------
(* The spacing of invocations (SpecCycles) *)

(* C20: in a session driven through process_cycle, whenever a cycle invokes
   an intervention that was invoked before, the new last-invoked timestamp
   exceeds the previous one by strictly more than the intervention's cooldown;
   and no last-invoked timestamp changes in any other way. *)
C20_MinimumSpacing ==
    [][/\ \A i \in Stamped :
             last_executed[i] # NoneTime =>
                 last_executed'[i] - last_executed[i] > cooldown_minutes(i)
       /\ (IsCycle(result') /\ state_history' # state_history
             /\ result'.value.intervention.kind = "executed") =>
             LET i == result'.value.intervention.protocol
             IN  /\ last_executed'[i] = result'.value.intervention.executed_at
                 /\ last_executed[i] # NoneTime =>
                        last_executed'[i] - last_executed[i] > cooldown_minutes(i)
      ]_vars

\* the third breach cycle has just invoked symbolic_quarantine at 240, which
\* the second had invoked at 0
C20_Witness ==
    /\ IsCycle(result)
    /\ Len(state_history) = 3
    /\ \A k \in 1..3 : state_history[k].coherence_score = 5
    /\ result.value.intervention.kind = "executed"
    /\ result.value.intervention.protocol = "symbolic_quarantine"
    /\ result.value.intervention.executed_at = 240
    /\ last_executed["emergency_containment"] = 0

----------------------------------------------------------------------------
(* The flag and the containment timestamps (SpecCycles) *)

(* C21: in a session driven through process_cycle and get_session_summary
   alone, active_containment is true exactly when some containment
   intervention has a last-invoked timestamp. *)
C21_FlagIffContainmentInvoked ==
    active_containment <=> InvokedContainment # {}

\* a grounding intervention was invoked with the flag still false, and the
\* cycle that has just returned invoked a containment intervention
C21_Witness ==
    /\ IsCycle(result)
    /\ result.value.intervention.kind = "executed"
    /\ result.value.intervention.type = "containment"
    /\ last_executed["loop_breath"] # NoneTime
    /\ Cardinality(InvokedContainment) = 1
    /\ active_containment

----------------------------------------------------------------------------
(* The categories process_cycle reaches (SpecAll) *)

\* the categories of the catalog other than redirect
Reached == {"grounding", "identity_anchor", "containment"}

\* the catalog interventions of category c with a last-invoked timestamp
InvokedOf(c) == {i \in Range(interventions[c]) : last_executed[i] # NoneTime}

(* C22: the table sends every pattern to grounding, identity_anchor or
   containment, each a category of the catalog; so in a session driven through
   process_cycle the category a selection looks up is one of the three, an
   invoked intervention belongs to one of the three, and the redirect
   intervention keeps a null last-invoked timestamp. *)
C22_RedirectNeverInvoked ==
    /\ \A k \in 1..Len(Patterns) :
          pattern_to_intervention(Patterns[k]) \in Reached \cap DOMAIN interventions
    /\ InvokedOf("redirect") = {}
    /\ (IsCycle(result) /\ MadeSelection(result)) =>
          /\ SelCategory(result) \in Reached
          /\ result.value.intervention.kind = "executed" =>
                /\ result.value.intervention.type \in Reached
                /\ intervention_type(result.value.intervention.protocol) \in Reached

\* cycles have invoked an intervention of each of the three categories, the
\* last of them for identity_fragmentation with temporal_disconnection also
\* detected, and creative_outlet_redirect was never invoked
C22_Witness ==
    /\ IsCycle(result)
    /\ Detected = {"identity_fragmentation", "temporal_disconnection"}
    /\ result.value.intervention.kind = "executed"
    /\ InvokedOf("grounding") # {}
    /\ InvokedOf("identity_anchor") # {}
    /\ InvokedOf("containment") # {}
    /\ last_executed["creative_outlet"] = NoneTime

====
